---- MODULE Spec2Model ----
\* Resume-Screening (app.py, db.py): the evaluation engine, the upload batch,
\* the evaluations store, the user store and the report builder.
EXTENDS Integers, Sequences, FiniteSets, TLC

VARIABLES
    ai_response,   \* evaluate_resume: what model.generate_content does for this call
    eval_result,   \* evaluate_resume: the value returned ("pending" before the call)
    schema,        \* which module's init_db created the tables: "app" or "db"
    evaluations,   \* the evaluations table, rows in insertion order
    owner,         \* history: the user each save_evaluation call was made for
    req,           \* the upload request (index): position, inputs, results
    resp,          \* the answer of the last lookup (download, fetch_latest_by_filename)
    users,         \* the users table, rows in insertion order
    auth           \* the answer of the last register, login, create_user or
                   \* verify_user_password

vars == <<ai_response, eval_result, schema, evaluations, owner, req, resp, users, auth>>

\* ------------------------------------------------------------------ bounds

\* longest model response enumerated lexeme by lexeme
MaxTextLen == 4
\* files in one upload
MaxFiles == 2
\* rows in the evaluations table when save_evaluation is called directly
MaxRows == 3

\* ------------------------------------------------------------------ text
\* A text is a sequence of lexemes. "{", "}", "[", "]", ":", "," and " " are the
\* characters themselves; a lexeme of NumLex is a number literal, a lexeme of
\* StrLex a quoted string literal with that content, Prose any run of
\* characters that is not JSON (a sentence, a code fence).

WS == " "
NumLex == {"0", "7", "11"}
StrLex == {"overall_score", "sub_scores", "summary", "skills", "matched",
           "missing", "recommended_improvements", "good fit",
           "Could not parse AI response or API error occurred.",
           "filename", "cv.pdf", "b.PDF", "N/A"}
Prose == "x"

NumOf(l) == CASE l = "0" -> 0 [] l = "7" -> 7 [] l = "11" -> 11

\* ------------------------------------------------------------------ values
\* Python values as tagged records.

None == [t |-> "none"]
JNum(n) == [t |-> "num", v |-> n]
JStr(s) == [t |-> "str", v |-> s]
JArr(a) == [t |-> "arr", v |-> a]
\* a dict: its items in insertion order, keys unique
JObj(items) == [t |-> "obj", v |-> items]

IsDict(x) == x.t = "obj"

\* Python truthiness, as used by `if not parsed`
Truthy(x) ==
    CASE x.t = "none" -> FALSE
      [] x.t = "num" -> x.v # 0
      [] x.t = "str" -> x.v # ""
      [] x.t = "arr" -> x.v # <<>>
      [] x.t = "obj" -> x.v # <<>>
      [] OTHER -> TRUE

HasKey(d, k) == \E i \in 1..Len(d.v) : d.v[i][1] = k

\* d[k]; the caller checks HasKey
DictGet(d, k) == d.v[CHOOSE i \in 1..Len(d.v) : d.v[i][1] = k][2]

\* d.get(k, default)
DictGetOr(d, k, default) == IF HasKey(d, k) THEN DictGet(d, k) ELSE default

\* d[k] = x: replaces the value in place, or appends a new item
DictSet(d, k, x) ==
    IF HasKey(d, k)
    THEN JObj([i \in 1..Len(d.v) |-> IF d.v[i][1] = k THEN <<k, x>> ELSE d.v[i]])
    ELSE JObj(Append(d.v, <<k, x>>))

\* ------------------------------------------------------------------ json.loads

Fail == [ok |-> FALSE]
Ok(x, i) == [ok |-> TRUE, v |-> x, i |-> i]

RECURSIVE SkipWs(_, _)
SkipWs(s, i) == IF i <= Len(s) /\ s[i] = WS THEN SkipWs(s, i + 1) ELSE i

RECURSIVE ParseValue(_, _), ParseElems(_, _, _), ParseMembers(_, _, _)

\* elements of an array after "[" (at least one), up to and including "]"
ParseElems(s, i, acc) ==
    LET r == ParseValue(s, i) IN
    IF ~r.ok THEN Fail
    ELSE LET j == SkipWs(s, r.i) IN
         IF j > Len(s) THEN Fail
         ELSE IF s[j] = "," THEN ParseElems(s, j + 1, Append(acc, r.v))
         ELSE IF s[j] = "]" THEN Ok(JArr(Append(acc, r.v)), j + 1)
         ELSE Fail

\* members of an object after "{" (at least one), up to and including "}";
\* a repeated key keeps its place and takes the later value
ParseMembers(s, i0, acc) ==
    LET i == SkipWs(s, i0) IN
    IF i > Len(s) \/ s[i] \notin StrLex THEN Fail
    ELSE LET c == SkipWs(s, i + 1) IN
         IF c > Len(s) \/ s[c] # ":" THEN Fail
         ELSE LET r == ParseValue(s, c + 1) IN
              IF ~r.ok THEN Fail
              ELSE LET j == SkipWs(s, r.i)
                       d == DictSet(acc, s[i], r.v) IN
                   IF j > Len(s) THEN Fail
                   ELSE IF s[j] = "," THEN ParseMembers(s, j + 1, d)
                   ELSE IF s[j] = "}" THEN Ok(d, j + 1)
                   ELSE Fail

ParseValue(s, i0) ==
    LET i == SkipWs(s, i0) IN
    IF i > Len(s) THEN Fail
    ELSE IF s[i] \in NumLex THEN Ok(JNum(NumOf(s[i])), i + 1)
    ELSE IF s[i] \in StrLex THEN Ok(JStr(s[i]), i + 1)
    ELSE IF s[i] = "["
         THEN LET j == SkipWs(s, i + 1) IN
              IF j <= Len(s) /\ s[j] = "]" THEN Ok(JArr(<<>>), j + 1)
              ELSE ParseElems(s, j, <<>>)
    ELSE IF s[i] = "{"
         THEN LET j == SkipWs(s, i + 1) IN
              IF j <= Len(s) /\ s[j] = "}" THEN Ok(JObj(<<>>), j + 1)
              ELSE ParseMembers(s, j, JObj(<<>>))
    ELSE Fail

\* json.loads(s): [ok |-> TRUE, v |-> value], or [ok |-> FALSE] where it raises
json_loads(s) ==
    LET r == ParseValue(s, 1) IN
    IF r.ok /\ SkipWs(s, r.i) > Len(s) THEN [ok |-> TRUE, v |-> r.v] ELSE Fail

\* ------------------------------------------------------------------ json.dumps

RECURSIVE Dumps(_), DumpElems(_, _), DumpItems(_, _)

DumpElems(a, i) ==
    IF i > Len(a) THEN <<>>
    ELSE (IF i > 1 THEN <<",", WS>> ELSE <<>>) \o Dumps(a[i]) \o DumpElems(a, i + 1)

DumpItems(items, i) ==
    IF i > Len(items) THEN <<>>
    ELSE (IF i > 1 THEN <<",", WS>> ELSE <<>>)
         \o <<items[i][1], ":", WS>> \o Dumps(items[i][2])
         \o DumpItems(items, i + 1)

NumLexOf(n) == CHOOSE l \in NumLex : NumOf(l) = n

\* json.dumps(x) with the default separators ", " and ": "
Dumps(x) ==
    CASE x.t = "num" -> <<NumLexOf(x.v)>>
      [] x.t = "str" -> <<x.v>>
      [] x.t = "arr" -> <<"[">> \o DumpElems(x.v, 1) \o <<"]">>
      [] x.t = "obj" -> <<"{">> \o DumpItems(x.v, 1) \o <<"}">>

json_dumps(x) == Dumps(x)

\* ------------------------------------------------------------------ safe_parse_json

RECURSIVE LStrip(_)
LStrip(s) == IF s # <<>> /\ Head(s) = WS THEN LStrip(Tail(s)) ELSE s

RECURSIVE RStrip(_)
RStrip(s) ==
    IF s # <<>> /\ s[Len(s)] = WS THEN RStrip(SubSeq(s, 1, Len(s) - 1)) ELSE s

\* str.strip()
Strip(s) == LStrip(RStrip(s))

\* str.find(c): the first index of c (1-based here), -1 when absent
Find(s, c) ==
    IF \E i \in 1..Len(s) : s[i] = c
    THEN CHOOSE i \in 1..Len(s) : s[i] = c /\ \A j \in 1..(i - 1) : s[j] # c
    ELSE -1

\* str.rfind(c): the last index of c, -1 when absent
RFind(s, c) ==
    IF \E i \in 1..Len(s) : s[i] = c
    THEN CHOOSE i \in 1..Len(s) : s[i] = c /\ \A j \in (i + 1)..Len(s) : s[j] # c
    ELSE -1

\* safe_parse_json(text): the decoded value, None when anything raises
safe_parse_json(text0) ==
    LET text == Strip(text0)
        start == Find(text, "{")
        end == RFind(text, "}")
        sliced == IF start # -1 /\ end # -1 THEN SubSeq(text, start, end) ELSE text
        r == json_loads(sliced)
    IN  IF r.ok THEN r.v ELSE None

\* ------------------------------------------------------------------ evaluate_resume

FallbackSummary == "Could not parse AI response or API error occurred."

\* the literal of app.py:143-148
Fallback ==
    JObj(<< <<"overall_score", JNum(0)>>,
            <<"sub_scores", JObj(<<>>)>>,
            <<"summary", JStr(FallbackSummary)>>,
            <<"skills", JObj(<< <<"matched", JArr(<<>>)>>,
                                <<"missing", JArr(<<>>)>>,
                                <<"recommended_improvements", JArr(<<>>)>> >>)>> >>)

\* what model.generate_content(prompt) / ai_response.text does: raises, or
\* gives a text
Raises == [kind |-> "raise"]
Text(s) == [kind |-> "text", text |-> s]

\* evaluate_resume(resume_text, jd_text): the prompt only feeds the external
\* model, whose answer is the parameter here
evaluate_resume(response) ==
    LET parsed == IF response.kind = "raise" THEN None
                  ELSE safe_parse_json(response.text)
    IN  IF ~Truthy(parsed) THEN Fallback ELSE parsed

\* ------------------------------------------------------------------ model responses

Lexemes == {"{", "}", "[", "]", ":", ",", "7", "0", "summary", Prose}

RECURSIVE TextsOfLen(_)
TextsOfLen(n) ==
    IF n = 0 THEN {<<>>}
    ELSE {Append(s, l) : s \in TextsOfLen(n - 1), l \in Lexemes}

\* two adjacent number lexemes would read as one longer number
WellLexed(s) == \A i \in 1..(Len(s) - 1) : ~(s[i] \in NumLex /\ s[i + 1] \in NumLex)

ShortTexts == {s \in UNION {TextsOfLen(n) : n \in 0..MaxTextLen} : WellLexed(s)}

\* a response of the requested shape
GoodResult(score) ==
    JObj(<< <<"overall_score", JNum(score)>>,
            <<"sub_scores", JObj(<< <<"skills", JNum(7)>> >>)>>,
            <<"summary", JStr("good fit")>>,
            <<"skills", JObj(<< <<"matched", JArr(<<JStr("skills")>>)>>,
                                <<"missing", JArr(<<>>)>>,
                                <<"recommended_improvements", JArr(<<>>)>> >>)>> >>)

\* longer responses: the requested object, bare or inside prose, and objects
\* that are JSON but not of the requested shape
LongTexts ==
    { json_dumps(GoodResult(7)),
      <<Prose, WS>> \o json_dumps(GoodResult(0)) \o <<WS, Prose>>,
      <<WS>> \o json_dumps(GoodResult(11)) \o <<WS>>,
      <<"{", "summary", ":", "good fit", "}">>,
      <<"{", "sub_scores", ":", "7", "}">>,
      <<"{", "overall_score", ":", "good fit", "}">>,
      <<"[", "{", "overall_score", ":", "7", "}", "]">>,
      <<"[", "7", ",", "0", "]">> }

Responses == {Raises} \cup {Text(s) : s \in ShortTexts \cup LongTexts}

\* ------------------------------------------------------------------ SpecEval
\* evaluate_resume alone, over every response

NoCall == [kind |-> "none"]
Idle == [pc |-> "idle"]
NoResp == [op |-> "none"]
NoAuth == [op |-> "none"]

EvalInit ==
    /\ ai_response \in Responses
    /\ eval_result = [t |-> "pending"]
    /\ schema = "app"
    /\ evaluations = <<>>
    /\ owner = <<>>
    /\ req = Idle
    /\ resp = NoResp
    /\ users = <<>>
    /\ auth = NoAuth

store_vars == <<schema, evaluations, owner, req, resp>>

EvalReturn ==
    /\ eval_result.t = "pending"
    /\ ai_response.kind = "text"
    /\ eval_result' = evaluate_resume(ai_response)
    /\ UNCHANGED <<users, auth, ai_response, store_vars>>

EvalCaught ==
    /\ eval_result.t = "pending"
    /\ ai_response.kind = "raise"
    /\ eval_result' = evaluate_resume(ai_response)
    /\ UNCHANGED <<users, auth, ai_response, store_vars>>

EvalNext == EvalReturn \/ EvalCaught

SpecEval == EvalInit /\ [][EvalNext]_vars

\* ------------------------------------------------------------------ uploads

Users == {1, 2}

\* request.form "jd" as typed; index strips it
JDs == {" ", "python dev"}

\* str.strip() of the form fields that occur
StripStr(s) == CASE s = " " -> "" [] s = " ann" -> "ann" [] OTHER -> s

\* the characters of an uploaded name, "." and "/" apart
NameLex(fn) ==
    CASE fn = "cv.pdf" -> <<"cv", ".", "pdf">>
      [] fn = "../b.PDF" -> <<".", ".", "/", "b", ".", "PDF">>
      [] fn = "notes.txt" -> <<"notes", ".", "txt">>
      [] fn = "b.PDF" -> <<"b", ".", "PDF">>
      [] OTHER -> <<>>

Lower(l) == CASE l = "PDF" -> "pdf" [] OTHER -> l

\* config.ALLOWED_EXTENSIONS
ALLOWED_EXTENSIONS == {"pdf"}

\* allowed_file(filename): a dot, and the part after the last dot, lowered, is
\* an allowed extension
allowed_file(filename) ==
    LET s == NameLex(filename)
        ext == SubSeq(s, RFind(s, ".") + 1, Len(s))
    IN  /\ \E i \in 1..Len(s) : s[i] = "."
        /\ Len(ext) = 1
        /\ Lower(ext[1]) \in ALLOWED_EXTENSIONS

\* werkzeug's secure_filename on the names uploaded here: path separators and
\* leading dots go
secure_filename(fn) == CASE fn = "../b.PDF" -> "b.PDF" [] OTHER -> fn

\* an uploaded file: its name, and whether PyPDF2 can read it
\* (extract_text_from_pdf raises on one it cannot)
Files ==
    {[name |-> n, readable |-> b] : n \in {"cv.pdf", "../b.PDF"}, b \in BOOLEAN}
    \cup {[name |-> "notes.txt", readable |-> FALSE]}

RECURSIVE SeqsOfLen(_, _)
SeqsOfLen(S, n) ==
    IF n = 0 THEN {<<>>} ELSE {Append(q, x) : q \in SeqsOfLen(S, n - 1), x \in S}

Batches == UNION {SeqsOfLen(Files, n) : n \in 0..MaxFiles}

\* the model's answers during an upload: the requested object, nothing usable,
\* a JSON list, and objects that are not of the requested shape
AppResponses ==
    { Raises,
      Text(json_dumps(GoodResult(7))),
      Text(<<"[", "7", ",", "0", "]">>),
      Text(<<"{", "sub_scores", ":", "7", "}">>),
      Text(<<"{", "overall_score", ":", "good fit", "}">>) }

\* ------------------------------------------------------------------ evaluations table

\* AUTOINCREMENT: one more than the largest id ever used (rows are never deleted)
NextId(table) == Len(table) + 1

\* an INSERT OR REPLACE keyed on (user_id, filename)
save_evaluation_upsert(table, user_id, filename, jd, result_json) ==
    IF \E k \in 1..Len(table) :
           table[k].user_id = user_id /\ table[k].filename = filename
    THEN [k \in 1..Len(table) |->
              IF table[k].user_id = user_id /\ table[k].filename = filename
              THEN [table[k] EXCEPT !.jd = jd, !.result_json = result_json]
              ELSE table[k]]
    ELSE Append(table, [id |-> Len(table) + 1, user_id |-> user_id,
                        filename |-> filename, jd |-> jd,
                        result_json |-> result_json])

\* app.save_evaluation: INSERT INTO evaluations (user_id, filename, jd, result_json)
save_evaluation(table, user_id, filename, jd, result_json) ==
    Append(table, [id |-> NextId(table), user_id |-> user_id, filename |-> filename,
                   jd |-> jd, result_json |-> result_json])

\* db.save_evaluation: INSERT INTO evaluations (filename, jd, result_json)
db_save_evaluation(table, filename, jd, result_json) ==
    Append(table, [id |-> NextId(table), filename |-> filename,
                   jd |-> jd, result_json |-> result_json])

Rows(table) == {table[i] : i \in 1..Len(table)}

\* ORDER BY id DESC LIMIT 1 ... fetchone(): the row of largest id among the
\* selected ones, None when none is selected
LatestById(rows) ==
    IF rows = {} THEN None
    ELSE CHOOSE r \in rows : \A q \in rows : q.id <= r.id

\* download's query: WHERE user_id=? AND filename=? ORDER BY id DESC LIMIT 1
download_query(table, user_id, filename) ==
    LatestById({row \in Rows(table) :
                    row.user_id = user_id /\ row.filename = filename})

\* db.fetch_latest_by_filename: WHERE filename = ? ORDER BY id DESC LIMIT 1;
\* row[0] if row else None
fetch_latest_by_filename(table, filename) ==
    LET row == LatestById({q \in Rows(table) : q.filename = filename})
    IN  IF row = None THEN None ELSE [t |-> "text", v |-> row.result_json]

\* ------------------------------------------------------------------ ranking

\* code-point order of the strings that occur as values
StrOrder == <<"Could not parse AI response or API error occurred.", "N/A",
              "b.PDF", "cv.pdf", "filename", "good fit", "matched", "missing",
              "overall_score", "recommended_improvements", "skills",
              "sub_scores", "summary">>
StrRank(s) == CHOOSE i \in 1..Len(StrOrder) : StrOrder[i] = s

\* a < b in Python: "lt", "ge", or "raise" (TypeError) for values with no
\* order between them; list keys, which Python orders element-wise, are not
\* among the model's answers and are not ordered here
PyLess(a, b) ==
    IF a.t = "num" /\ b.t = "num" THEN (IF a.v < b.v THEN "lt" ELSE "ge")
    ELSE IF a.t = "str" /\ b.t = "str"
         THEN (IF StrRank(a.v) < StrRank(b.v) THEN "lt" ELSE "ge")
    ELSE "raise"

\* key=lambda r: r.get("overall_score", 0)
SortKey(r) == DictGetOr(r, "overall_score", JNum(0))

\* list.sort compares every element with another one: some comparison raises
\* exactly when two keys have no order
SortRaises(results) ==
    \E i, j \in 1..Len(results) :
        i # j /\ PyLess(SortKey(results[i]), SortKey(results[j])) = "raise"

\* r goes after the last element whose key is not less than r's
RECURSIVE InsertDesc(_, _)
InsertDesc(sorted, r) ==
    IF sorted = <<>> THEN <<r>>
    ELSE IF PyLess(SortKey(sorted[Len(sorted)]), SortKey(r)) = "lt"
         THEN Append(InsertDesc(SubSeq(sorted, 1, Len(sorted) - 1), r),
                     sorted[Len(sorted)])
         ELSE Append(sorted, r)

RECURSIVE SortFrom(_, _, _)
SortFrom(results, i, acc) ==
    IF i > Len(results) THEN acc
    ELSE SortFrom(results, i + 1, InsertDesc(acc, results[i]))

\* results.sort(key=..., reverse=True): stable, largest key first
sort_results(results) == SortFrom(results, 1, <<>>)

\* ------------------------------------------------------------------ index

\* POST /upload arrives: the form check of app.py:214-217
IndexPost(u, jd, files) ==
    /\ schema = "app"
    /\ req.pc = "idle"
    /\ LET jd_text == StripStr(jd) IN
       req' = IF jd_text = "" \/ files = <<>>
              THEN [pc |-> "form_error"]
              ELSE [pc |-> "loop", user |-> u, jd |-> jd_text, files |-> files,
                    i |-> 1, results |-> <<>>, saved |-> 0]
    /\ UNCHANGED <<users, auth, ai_response, eval_result, schema, evaluations, owner, resp>>

\* one turn of `for file in resumes` for a file the filter rejects
IndexSkip ==
    /\ req.pc = "loop"
    /\ req.i <= Len(req.files)
    /\ ~allowed_file(req.files[req.i].name)
    /\ req' = [req EXCEPT !.i = @ + 1]
    /\ UNCHANGED <<users, auth, ai_response, eval_result, schema, evaluations, owner, resp>>

\* one turn for an allowed file that extract_text_from_pdf cannot read: the
\* exception leaves index
IndexExtractRaises ==
    /\ req.pc = "loop"
    /\ req.i <= Len(req.files)
    /\ allowed_file(req.files[req.i].name)
    /\ ~req.files[req.i].readable
    /\ req' = [req EXCEPT !.pc = "error"]
    /\ UNCHANGED <<users, auth, ai_response, eval_result, schema, evaluations, owner, resp>>

\* one turn for an allowed, readable file: evaluate, tag, append, save
IndexFile(response) ==
    /\ req.pc = "loop"
    /\ req.i <= Len(req.files)
    /\ allowed_file(req.files[req.i].name)
    /\ req.files[req.i].readable
    /\ LET filename == secure_filename(req.files[req.i].name)
           analysis == evaluate_resume(response)
           tagged == DictSet(analysis, "filename", JStr(filename))
       IN  IF ~IsDict(analysis)
           THEN \* analysis["filename"] = filename raises TypeError
                /\ req' = [req EXCEPT !.pc = "error"]
                /\ UNCHANGED <<evaluations, owner>>
           ELSE /\ req' = [req EXCEPT !.i = @ + 1,
                                      !.results = Append(@, tagged),
                                      !.saved = @ + 1]
                /\ evaluations' = save_evaluation(evaluations, req.user, filename,
                                                  req.jd, json_dumps(tagged))
                /\ owner' = Append(owner, req.user)
    /\ UNCHANGED <<users, auth, ai_response, eval_result, schema, resp>>

\* the request once results.html is rendered: results as they were appended
\* (history), ranked as sorted in place, and top_score
Rendered(q, ranked, top_score) ==
    [pc |-> "done", user |-> q.user, jd |-> q.jd, files |-> q.files, i |-> q.i,
     results |-> q.results, saved |-> q.saved, ranked |-> ranked,
     top_score |-> top_score]

\* after the loop: sort, top_score, render; a TypeError of the sort or a
\* KeyError of results[0]["overall_score"] leaves index
IndexRender ==
    /\ req.pc = "loop"
    /\ req.i > Len(req.files)
    /\ LET results == req.results
           sorted == sort_results(results)
       IN  req' = IF SortRaises(results) THEN [req EXCEPT !.pc = "error"]
                  ELSE IF sorted = <<>> THEN Rendered(req, sorted, JNum(0))
                  ELSE IF ~HasKey(sorted[1], "overall_score")
                       THEN [req EXCEPT !.pc = "error"]
                  ELSE Rendered(req, sorted, DictGet(sorted[1], "overall_score"))
    /\ UNCHANGED <<users, auth, ai_response, eval_result, schema, evaluations, owner, resp>>

\* ------------------------------------------------------------------ report

Raised == [ok |-> FALSE]

\* generate_pdf_report(result): what is handed to the renderer (the info
\* block, the table's data, the summary), or Raised where a .get has no
\* dict to work on
generate_pdf_report(result) ==
    IF ~IsDict(result) THEN Raised
    ELSE LET sub == DictGetOr(result, "sub_scores", JObj(<<>>)) IN
         IF ~IsDict(sub) THEN Raised
         ELSE [ok |-> TRUE,
               filename |-> DictGetOr(result, "filename", JStr("N/A")),
               overall |-> <<DictGetOr(result, "overall_score", JStr("N/A")), "/10">>,
               data |-> << <<"Criteria", JStr("Score (/10)")>>,
                           <<"Skills", DictGetOr(sub, "skills", JStr("N/A"))>>,
                           <<"Experience", DictGetOr(sub, "experience", JStr("N/A"))>>,
                           <<"Education", DictGetOr(sub, "education", JStr("N/A"))>>,
                           <<"Domain Knowledge",
                             DictGetOr(sub, "domain_knowledge", JStr("N/A"))>> >>,
               summary |-> DictGetOr(result, "summary", JStr("No summary available."))]

DownloadNames == {"cv.pdf", "b.PDF", "notes.txt"}

\* GET /download/<filename> by user u. resp keeps, besides the answer, the
\* number of rows the query saw (n) and the result_json it read (result)
Download(u, filename) ==
    /\ schema = "app"
    /\ LET row == download_query(evaluations, u, filename) IN
       resp' = IF row = None
               THEN [op |-> "download", user |-> u, filename |-> filename,
                     n |-> Len(evaluations), result |-> None,
                     status |-> 404, body |-> Raised]
               ELSE LET result == json_loads(row.result_json).v
                        pdf_file == generate_pdf_report(result)
                    IN  [op |-> "download", user |-> u, filename |-> filename,
                         n |-> Len(evaluations),
                         result |-> [t |-> "text", v |-> row.result_json],
                         status |-> IF pdf_file.ok THEN 200 ELSE 500,
                         body |-> pdf_file]
    /\ UNCHANGED <<users, auth, ai_response, eval_result, schema, evaluations, owner, req>>

\* ------------------------------------------------------------------ callers of the store

\* what callers of save_evaluation pass as result_json
Payloads == {json_dumps(Fallback), json_dumps(GoodResult(7))}
StoredNames == {"cv.pdf", "b.PDF"}

\* app.save_evaluation(user_id, filename, jd, result_json), one transaction
AppSave(u, filename, result_json) ==
    /\ schema = "app"
    /\ Len(evaluations) < MaxRows
    /\ evaluations' = save_evaluation(evaluations, u, filename, "python dev", result_json)
    /\ owner' = Append(owner, u)
    /\ UNCHANGED <<users, auth, ai_response, eval_result, schema, req, resp>>

\* db.save_evaluation(filename, jd, result_json), called for user u
DbSave(u, filename, result_json) ==
    /\ schema = "db"
    /\ Len(evaluations) < MaxRows
    /\ evaluations' = db_save_evaluation(evaluations, filename, "python dev", result_json)
    /\ owner' = Append(owner, u)
    /\ UNCHANGED <<users, auth, ai_response, eval_result, schema, req, resp>>

\* db.fetch_latest_by_filename(filename), called for user u
DbFetchLatest(u, filename) ==
    /\ schema = "db"
    /\ resp' = [op |-> "fetch_latest_by_filename", user |-> u, filename |-> filename,
                n |-> Len(evaluations),
                result |-> fetch_latest_by_filename(evaluations, filename)]
    /\ UNCHANGED <<users, auth, ai_response, eval_result, schema, evaluations, owner, req>>

\* ------------------------------------------------------------------ Spec
\* The evaluations table under its callers: each call is one transaction, and
\* calls of different users interleave in any order. app.py and db.py each
\* create a table named evaluations in the same file, with different columns;
\* the table has the columns of the module that created it, and the model
\* follows each module on its own table.

Init ==
    /\ ai_response = NoCall
    /\ eval_result = [t |-> "pending"]
    /\ schema \in {"app", "db"}
    /\ evaluations = <<>>
    /\ owner = <<>>
    /\ req = Idle
    /\ resp = NoResp
    /\ users = <<>>
    /\ auth = NoAuth

Next ==
    \/ \E u \in Users, filename \in StoredNames, p \in Payloads : AppSave(u, filename, p)
    \/ \E u \in Users, filename \in StoredNames : Download(u, filename)
    \/ \E u \in Users, filename \in StoredNames, p \in Payloads : DbSave(u, filename, p)
    \/ \E u \in Users, filename \in StoredNames : DbFetchLatest(u, filename)

Spec == Init /\ [][Next]_vars

\* ------------------------------------------------------------------ SpecBatch
\* One upload from the form to the rendered page, over every batch and every
\* answer of the model, and the downloads of what it stored.

BatchInit ==
    /\ ai_response = NoCall
    /\ eval_result = [t |-> "pending"]
    /\ schema = "app"
    /\ evaluations = <<>>
    /\ owner = <<>>
    /\ req = Idle
    /\ resp = NoResp
    /\ users = <<>>
    /\ auth = NoAuth

BatchNext ==
    \/ \E u \in Users, jd \in JDs, files \in Batches : IndexPost(u, jd, files)
    \/ IndexSkip
    \/ IndexExtractRaises
    \/ \E response \in AppResponses : IndexFile(response)
    \/ IndexRender
    \/ \E u \in Users, filename \in DownloadNames : Download(u, filename)

SpecBatch == BatchInit /\ [][BatchNext]_vars

\* ------------------------------------------------------------------ users table

\* request.form "username" and "password" as typed
Usernames == {"ann", " ann", "bob"}
Passwords == {"pw", "pw2"}

\* the salts generate_password_hash draws from
Salts == {"s1", "s2"}

\* werkzeug's generate_password_hash(password), with the salt it drew: the
\* salt in clear beside a digest of salt and password (no two inputs share a
\* digest)
generate_password_hash(password, salt) ==
    [salt |-> salt, digest |-> <<salt, password>>]

\* werkzeug's check_password_hash(pwhash, password): the digest recomputed
\* with the stored salt
check_password_hash(pwhash, password) ==
    pwhash.digest = generate_password_hash(password, pwhash.salt).digest

\* username TEXT UNIQUE: the INSERT raises IntegrityError
Taken(table, username) == \E k \in 1..Len(table) : table[k].username = username

\* db.create_user turned INSERT OR REPLACE
create_user_replace(table, username, password_hash) ==
    IF Taken(table, username)
    THEN [ret |-> TRUE,
          table |-> [k \in 1..Len(table) |->
                        IF table[k].username = username
                        THEN [table[k] EXCEPT !.password_hash = password_hash]
                        ELSE table[k]]]
    ELSE [ret |-> TRUE,
          table |-> Append(table, [id |-> NextId(table), username |-> username,
                                   password_hash |-> password_hash,
                                   fullname |-> None, email |-> None])]

\* db.create_user(username, password), password_hash already made: the
\* value returned and the table afterwards
create_user(table, username, password_hash) ==
    IF Taken(table, username) THEN [ret |-> FALSE, table |-> table]
    ELSE [ret |-> TRUE,
          table |-> Append(table, [id |-> NextId(table), username |-> username,
                                   password_hash |-> password_hash,
                                   fullname |-> None, email |-> None])]

\* db.find_user_by_username(username): the row, or None
find_user_by_username(table, username) ==
    IF Taken(table, username)
    THEN CHOOSE row \in Rows(table) : row.username = username
    ELSE None

\* db.verify_user_password without the password check
verify_user_password_any(table, username, password) ==
    find_user_by_username(table, username) # None

\* db.verify_user_password(username, password)
verify_user_password(table, username, password) ==
    LET row == find_user_by_username(table, username) IN
    IF row = None THEN FALSE
    ELSE check_password_hash(row.password_hash, password)

\* db.create_user(username, password)
CreateUser(username, password, salt) ==
    /\ schema = "db"
    /\ LET out == create_user(users, username, generate_password_hash(password, salt))
       IN  /\ users' = out.table
           /\ auth' = [op |-> "create_user", username |-> username,
                       password |-> password, ret |-> out.ret]
    /\ UNCHANGED <<ai_response, eval_result, schema, evaluations, owner, req, resp>>

\* db.verify_user_password(username, password)
VerifyUserPassword(username, password) ==
    /\ schema = "db"
    /\ auth' = [op |-> "verify_user_password", username |-> username,
                password |-> password,
                ret |-> verify_user_password(users, username, password)]
    /\ UNCHANGED <<ai_response, eval_result, schema, evaluations, owner, req, resp, users>>

\* POST /register: INSERT INTO users (username, password), both stripped
Register(username0, password0) ==
    /\ schema = "app"
    /\ LET username == StripStr(username0)
           password == StripStr(password0)
       IN  IF Taken(users, username)
           THEN /\ auth' = [op |-> "register", username |-> username0,
                            password |-> password0, ret |-> FALSE,
                            flash |-> "Username already exists."]
                /\ UNCHANGED users
           ELSE /\ users' = Append(users, [id |-> NextId(users), username |-> username,
                                           password |-> password])
                /\ auth' = [op |-> "register", username |-> username0,
                            password |-> password0, ret |-> TRUE,
                            flash |-> "Registration successful. Please log in."]
    /\ UNCHANGED <<ai_response, eval_result, schema, evaluations, owner, req, resp>>

\* POST /login: SELECT ... WHERE username=? AND password=?, both stripped;
\* ret says whether login_user was called
Login(username0, password0) ==
    /\ schema = "app"
    /\ LET username == StripStr(username0)
           password == StripStr(password0)
           found == \E row \in Rows(users) :
                        row.username = username /\ row.password = password
       IN  auth' = [op |-> "login", username |-> username0, password |-> password0,
                    ret |-> found,
                    flash |-> IF found THEN "" ELSE "Invalid credentials."]
    /\ UNCHANGED <<ai_response, eval_result, schema, evaluations, owner, req, resp, users>>

\* ------------------------------------------------------------------ SpecUsers
\* The users table under registrations and logins, for each module on its
\* own table.

UsersInit ==
    /\ ai_response = NoCall
    /\ eval_result = [t |-> "pending"]
    /\ schema \in {"app", "db"}
    /\ evaluations = <<>>
    /\ owner = <<>>
    /\ req = Idle
    /\ resp = NoResp
    /\ users = <<>>
    /\ auth = NoAuth

UsersNext ==
    \/ \E u \in Usernames, p \in Passwords, salt \in Salts : CreateUser(u, p, salt)
    \/ \E u \in Usernames, p \in Passwords : VerifyUserPassword(u, p)
    \/ \E u \in Usernames, p \in Passwords : Register(u, p)
    \/ \E u \in Usernames, p \in Passwords : Login(u, p)

SpecUsers == UsersInit /\ [][UsersNext]_vars

\* ------------------------------------------------------------------ claims

\* the value is an EvaluationResult: an object with overall_score an integer
\* in 0..10, sub_scores a mapping, summary a text, and skills an object with
\* matched, missing and recommended_improvements
FullyShaped(x) ==
    /\ IsDict(x)
    /\ HasKey(x, "overall_score")
    /\ DictGet(x, "overall_score").t = "num"
    /\ DictGet(x, "overall_score").v \in 0..10
    /\ HasKey(x, "sub_scores") /\ IsDict(DictGet(x, "sub_scores"))
    /\ HasKey(x, "summary") /\ DictGet(x, "summary").t = "str"
    /\ HasKey(x, "skills") /\ IsDict(DictGet(x, "skills"))
    /\ \A k \in {"matched", "missing", "recommended_improvements"} :
           HasKey(DictGet(x, "skills"), k)

\* the response holds no JSON object: the call raised, or what lies between
\* the first "{" and the last "}" (the whole text without them) does not
\* decode, or decodes to something that is not an object
NoObject(response) ==
    \/ response.kind = "raise"
    \/ ~IsDict(safe_parse_json(response.text))

\* C1: for every response that is malformed, is not JSON or decodes to a JSON
\* value that is not an object, and whenever the model call raises,
\* evaluate_resume returns exactly the fallback result.
C1_FallbackOnBadResponse ==
    (eval_result.t # "pending" /\ NoObject(ai_response)) => eval_result = Fallback

\* C2: every value evaluate_resume returns is a fully-shaped EvaluationResult,
\* so every result collected by an upload and every persisted record is one.
C2_EveryResultFullyShaped ==
    /\ req.pc \in {"loop", "done", "error"} =>
           \A k \in 1..Len(req.results) : FullyShaped(req.results[k])
    /\ \A k \in 1..Len(evaluations) :
           FullyShaped(json_loads(evaluations[k].result_json).v)

\* C3: an upload of N files with a job description completes with exactly N
\* results and N persisted rows, whatever fails for any of its files.
C3_OneResultPerFile ==
    /\ req.pc # "error"
    /\ req.pc = "done" =>
           /\ Len(req.results) = Len(req.files)
           /\ req.saved = Len(req.files)

\* a is a reordering of b
SameElements(a, b) ==
    /\ Len(a) = Len(b)
    /\ \A x \in Rows(a) \cup Rows(b) :
           Cardinality({i \in 1..Len(a) : a[i] = x})
               = Cardinality({i \in 1..Len(b) : b[i] = x})

Score(x) == DictGet(x, "overall_score")

\* C7: ranking never raises; it returns the same N results by non-increasing
\* overall_score (a result without one ranks as 0, as the sort key has it),
\* equal scores in submission order, and the top score is the first ranked
\* result's overall_score, or 0 for no results.
C7_Ranking ==
    /\ ~(req.pc = "error" /\ req.i > Len(req.files))
    /\ req.pc = "done" =>
           LET ranked == req.ranked
               results == req.results
           IN  /\ SameElements(ranked, results)
               /\ \A k \in 1..(Len(ranked) - 1) :
                      PyLess(SortKey(ranked[k]), SortKey(ranked[k + 1])) = "ge"
               /\ \A a, b \in 1..Len(results) :
                      (a < b /\ SortKey(results[a]) = SortKey(results[b])) =>
                          \E x, y \in 1..Len(ranked) :
                              x < y /\ ranked[x] = results[a] /\ ranked[y] = results[b]
               /\ req.top_score = IF ranked = <<>> THEN JNum(0) ELSE Score(ranked[1])

CriteriaRows ==
    << <<"Skills", "skills">>, <<"Experience", "experience">>,
       <<"Education", "education">>, <<"Domain Knowledge", "domain_knowledge">> >>

\* C10: a download of a persisted record always builds the report: the four
\* criteria rows in order, each the sub-score or "N/A", the overall score over
\* 10, and the summary or "No summary available.".
C10_ReportAlwaysBuilt ==
    (resp.op = "download" /\ resp.status # 404) =>
        LET result == json_loads(resp.result.v).v
            sub == DictGetOr(result, "sub_scores", JObj(<<>>))
        IN  /\ resp.status = 200
            /\ Len(resp.body.data) = 5
            /\ \A k \in 1..4 :
                   /\ resp.body.data[k + 1][1] = CriteriaRows[k][1]
                   /\ resp.body.data[k + 1][2] =
                          IF IsDict(sub) /\ HasKey(sub, CriteriaRows[k][2])
                          THEN DictGet(sub, CriteriaRows[k][2]) ELSE JStr("N/A")
            /\ resp.body.overall[2] = "/10"
            /\ HasKey(result, "overall_score") => resp.body.overall[1] = Score(result)
            /\ resp.body.summary =
                   IF HasKey(result, "summary") THEN DictGet(result, "summary")
                   ELSE JStr("No summary available.")

\* the user a row was saved for
SavedFor(k) == IF schema = "app" THEN evaluations[k].user_id ELSE owner[k]

\* the rows, among those the lookup saw, saved for its user under its filename
MatchingRows ==
    {k \in 1..resp.n :
         SavedFor(k) = resp.user /\ evaluations[k].filename = resp.filename}

IsLookup == resp.op \in {"download", "fetch_latest_by_filename"}

\* C4: a lookup for a (user, filename) pair returns the payload of the row
\* inserted last for that pair, whatever was saved for other pairs.
C4_LatestForPair ==
    (IsLookup /\ MatchingRows # {}) =>
        LET last == CHOOSE k \in MatchingRows : \A j \in MatchingRows : j <= k
        IN  resp.result = [t |-> "text", v |-> evaluations[last].result_json]

\* C5: a lookup returns a result exactly when a row was saved for that user
\* under that filename, and then the result is one of those rows' payloads.
C5_OnlyOwnRecords ==
    IsLookup =>
        IF MatchingRows = {} THEN resp.result = None
        ELSE \E k \in MatchingRows :
                 resp.result = [t |-> "text", v |-> evaluations[k].result_json]

\* C6: the evaluations table is append-only: every step leaves it alone or
\* adds one row with a fresh id after the unchanged earlier rows, each
\* save_evaluation call adds one, and ids never repeat.
C6_AppendOnly ==
    /\ [](/\ Len(evaluations) = Len(owner)
          /\ \A i, j \in 1..Len(evaluations) :
                 evaluations[i].id = evaluations[j].id => i = j)
    /\ [][\/ evaluations' = evaluations
          \/ /\ Len(evaluations') = Len(evaluations) + 1
             /\ SubSeq(evaluations', 1, Len(evaluations)) = evaluations
             /\ \A k \in 1..Len(evaluations) :
                    evaluations[k].id # evaluations'[Len(evaluations')].id]_vars

\* the same user has saved the same filename twice, another save in between
C6_Witness ==
    \E i, j \in 1..Len(evaluations) :
        /\ i + 1 < j
        /\ owner[i] = owner[j] /\ owner[i + 1] # owner[i]
        /\ evaluations[i].filename = evaluations[j].filename
        /\ evaluations[i].id # evaluations[j].id

\* the name a registration stores: register strips it, create_user does not
StoredName(a) == IF a.op = "register" THEN StripStr(a.username) ELSE a.username

\* the row holds a credential made from this password
CredentialOf(row, password) ==
    IF schema = "app" THEN row.password = StripStr(password)
    ELSE \E salt \in Salts : row.password_hash = generate_password_hash(password, salt)

\* C8: a registration under a username that is taken fails (False, "Username
\* already exists.") and leaves the table as it was; under a free username it
\* succeeds and adds that user's row; usernames stay unique.
C8_UniqueUsernames ==
    /\ [](\A i, j \in 1..Len(users) : users[i].username = users[j].username => i = j)
    /\ [][auth'.op \in {"register", "create_user"} =>
              IF Taken(users, StoredName(auth'))
              THEN auth'.ret = FALSE /\ users' = users
              ELSE /\ auth'.ret = TRUE
                   /\ Len(users') = Len(users) + 1
                   /\ SubSeq(users', 1, Len(users)) = users
                   /\ users'[Len(users')].username = StoredName(auth')
                   /\ CredentialOf(users'[Len(users')], auth'.password)]_vars

\* the second registration of a name was refused, and the name has the one
\* row of the first, with the first's credential
C8_Witness ==
    /\ auth.op \in {"register", "create_user"}
    /\ auth.ret = FALSE
    /\ Cardinality({k \in 1..Len(users) : users[k].username = StoredName(auth)}) = 1
    /\ \E k \in 1..Len(users) :
           users[k].username = StoredName(auth) /\ ~CredentialOf(users[k], auth.password)

\* C9: verify_user_password and login answer true exactly when a user of that
\* name exists and the password is the one of its credential; both failures
\* give the same answer.
C9_VerifyCredentials ==
    [][auth'.op \in {"login", "verify_user_password"} =>
           LET name == IF auth'.op = "login" THEN StripStr(auth'.username)
                       ELSE auth'.username
               known == \E k \in 1..Len(users) :
                            users[k].username = name
                            /\ CredentialOf(users[k], auth'.password)
           IN  /\ auth'.ret = known
               /\ auth'.op = "login" =>
                      (auth'.ret = FALSE <=> auth'.flash = "Invalid credentials.")
               /\ UNCHANGED users]_vars

\* a wrong password for a known user was answered with False
C9_Witness ==
    /\ auth.op \in {"login", "verify_user_password"}
    /\ auth.ret = FALSE
    /\ \E k \in 1..Len(users) :
           users[k].username = (IF auth.op = "login" THEN StripStr(auth.username)
                                ELSE auth.username)

====
